---- MODULE Spec2Model ----
(***************************************************************************)
(* Room lifecycle and message relay of the card game server                *)
(* (src/server.js): the gameRooms registry, the socket.io broadcast groups *)
(* and the six socket event handlers.  Every handler runs to completion,   *)
(* so each handler is one action.                                          *)
(***************************************************************************)
EXTENDS Naturals, Sequences, FiniteSets

\* ------------------------------------------------------------------ bounds
MaxConns == 2            \* connections the transport ever hands out (Spec)
NumCodes == 2            \* distinct values generateRoomCode can return
MaxEvents == 6           \* client messages handled in one run (Spec)
PartyConns == 3          \* connections the transport ever hands out (SpecParty)
PartyEvents == 6         \* client messages handled in one run (SpecParty)
LobbyConns == 6          \* connections the transport ever hands out (SpecLobby)
LobbyEvents == 11        \* client messages handled in one run (SpecLobby)

\* ------------------------------------------------------- program constants
MaxPlayers == 5          \* room.players.length >= 5
MinPlayers == 2          \* room.players.length >= 2

Codes == 1..NumCodes
PartyCodes == {1}
LobbyCode == CHOOSE code \in Codes : TRUE
PlayerNames == {"Alice"}
GameStates == {"g1", "g2"}
ActionNames == {"play"}
NoGameState == "null"

VARIABLES
  gameRooms,   \* the Map: a function from the live room codes to rooms
  roomKeys,    \* the Map's insertion order: the live codes, oldest first
  subs,        \* socket.io broadcast groups: code -> set of joined sockets
  connected,   \* the sockets whose connection is open
  nextId,      \* the next socket.id the transport hands out
  lastEvent,   \* the inbound event handled by the last step
  emitted,     \* the messages that handler emitted, in order
  events       \* number of inbound events handled so far

vars == <<gameRooms, roomKeys, subs, connected, nextId, lastEvent, emitted, events>>

\* ----------------------------------------------------------------- helpers
NewPlayer(id, name) == [id |-> id, name |-> name, ready |-> FALSE]

NewRoom(code, id, name) ==
  [code |-> code, players |-> <<NewPlayer(id, name)>>,
   gameState |-> NoGameState, started |-> FALSE]

\* Array.prototype.findIndex(p => p.id === id): first match, 0 for -1
FindIndex(players, id) ==
  IF \E i \in 1..Len(players) : players[i].id = id
  THEN CHOOSE i \in 1..Len(players) :
         /\ players[i].id = id
         /\ \A j \in 1..(i - 1) : players[j].id # id
  ELSE 0

\* a removal that moves the last player into the hole
Splice_SwapRemove(players, i) ==
  [j \in 1..(Len(players) - 1) |-> IF j = i THEN players[Len(players)] ELSE players[j]]

\* players.splice(i, 1)
Splice(players, i) ==
  [j \in 1..(Len(players) - 1) |-> IF j < i THEN players[j] ELSE players[j + 1]]

\* players.every(p => p.ready)
EveryReady(players) == \A i \in 1..Len(players) : players[i].ready

\* a start test that forgets the two-player minimum
StartCondition_NoMinimum(players) == EveryReady(players)

\* a start test that asks for more than the minimum of players
StartCondition_MoreThanMin(players) == Len(players) > MinPlayers /\ EveryReady(players)

\* the start test of playerReady
StartCondition(players) == Len(players) >= MinPlayers /\ EveryReady(players)

\* a capacity test that is off by one
RoomIsFull_OffByOne(room) == Len(room.players) > MaxPlayers

\* the capacity test of joinRoom
RoomIsFull(room) == Len(room.players) >= MaxPlayers

\* a started test that lets late joiners in
RoomHasStarted_Never(room) == FALSE

\* the started test of joinRoom
RoomHasStarted(room) == room.started

\* outbound messages; `to` is the set of sockets the transport delivers to
Msg(ev, to, code, players, text, pid) ==
  [ev |-> ev, to |-> to, code |-> code, players |-> players, text |-> text, pid |-> pid]

\* socket.emit(ev, ...)
Unicast(ev, c, code, text, pid) == Msg(ev, {c}, code, <<>>, text, pid)

\* io.to(code): the sockets joined to the group when the message is emitted
Group(s, code) == s[code]

\* a relay that echoes to the sending socket too
GroupExcept_IncludesSender(s, code, c) == s[code]

\* socket.to(code): the group without the sending socket
GroupExcept(s, code, c) == s[code] \ {c}

\* io.to(code).emit(ev, ...) and socket.to(code).emit(ev, ...)
Broadcast(ev, to, code, players, text, pid) == Msg(ev, to, code, players, text, pid)

Event(type, c, code, arg) == [type |-> type, conn |-> c, code |-> code, arg |-> arg]

Live(code) == code \in DOMAIN gameRooms

Init ==
  /\ gameRooms = <<>>
  /\ roomKeys = <<>>
  /\ subs = [code \in Codes |-> {}]
  /\ connected = {}
  /\ nextId = 1
  /\ lastEvent = Event("none", 0, 0, "")
  /\ emitted = <<>>
  /\ events = 0

\* io.on('connection'): the transport assigns a fresh socket.id
Connect(maxConns) ==
  /\ nextId <= maxConns
  /\ connected' = connected \cup {nextId}
  /\ nextId' = nextId + 1
  /\ lastEvent' = Event("connect", nextId, 0, "")
  /\ emitted' = <<>>
  /\ UNCHANGED <<gameRooms, roomKeys, subs, events>>

\* socket.on('createRoom'); code is the value generateRoomCode returned
CreateRoom(c, name, code) ==
  /\ c \in connected
  /\ gameRooms' = [k \in DOMAIN gameRooms \cup {code} |->
                     IF k = code THEN NewRoom(code, c, name) ELSE gameRooms[k]]
  /\ roomKeys' = IF Live(code) THEN roomKeys ELSE Append(roomKeys, code)
  /\ subs' = [subs EXCEPT ![code] = @ \cup {c}]
  /\ emitted' = <<Unicast("roomCreated", c, code, "", c)>>
  /\ lastEvent' = Event("createRoom", c, code, name)
  /\ events' = events + 1
  /\ UNCHANGED <<connected, nextId>>

\* the early returns with the capacity test before the started test
JoinError_FullFirst(code) ==
  IF ~Live(code) THEN "Room not found"
  ELSE IF RoomIsFull(gameRooms[code]) THEN "Room is full"
  ELSE IF RoomHasStarted(gameRooms[code]) THEN "Game already started"
  ELSE ""

\* the early returns of joinRoom, in the order of the code; "" when it goes on
JoinError(code) ==
  IF ~Live(code) THEN "Room not found"
  ELSE IF RoomHasStarted(gameRooms[code]) THEN "Game already started"
  ELSE IF RoomIsFull(gameRooms[code]) THEN "Room is full"
  ELSE ""

\* a joinRoom that puts the joiner first (unshift for push)
JoinRoom_Unshift(c, code, name) ==
  /\ c \in connected
  /\ IF JoinError(code) # ""
     THEN /\ emitted' = <<Unicast("error", c, code, JoinError(code), 0)>>
          /\ UNCHANGED <<gameRooms, subs>>
     ELSE /\ gameRooms' = [gameRooms EXCEPT
                             ![code].players = <<NewPlayer(c, name)>> \o @]
          /\ subs' = [subs EXCEPT ![code] = @ \cup {c}]
          /\ emitted' = <<Unicast("roomJoined", c, code, "", c),
                          Broadcast("playersUpdate", Group(subs', code), code,
                                    gameRooms'[code].players, "", 0)>>
  /\ lastEvent' = Event("joinRoom", c, code, name)
  /\ events' = events + 1
  /\ UNCHANGED <<roomKeys, connected, nextId>>

\* socket.on('joinRoom')
JoinRoom(c, code, name) ==
  /\ c \in connected
  /\ IF JoinError(code) # ""
     THEN /\ emitted' = <<Unicast("error", c, code, JoinError(code), 0)>>
          /\ UNCHANGED <<gameRooms, subs>>
     ELSE /\ gameRooms' = [gameRooms EXCEPT
                             ![code].players = Append(@, NewPlayer(c, name))]
          /\ subs' = [subs EXCEPT ![code] = @ \cup {c}]
          /\ emitted' = <<Unicast("roomJoined", c, code, "", c),
                          Broadcast("playersUpdate", Group(subs', code), code,
                                    gameRooms'[code].players, "", 0)>>
  /\ lastEvent' = Event("joinRoom", c, code, name)
  /\ events' = events + 1
  /\ UNCHANGED <<roomKeys, connected, nextId>>

\* socket.on('playerReady')
PlayerReady(c, code) ==
  /\ c \in connected
  /\ IF Live(code) /\ FindIndex(gameRooms[code].players, c) # 0
     THEN LET i == FindIndex(gameRooms[code].players, c)
              ps == [gameRooms[code].players EXCEPT ![i].ready = TRUE]
              update == Broadcast("playersUpdate", Group(subs, code), code, ps, "", 0)
          IN IF StartCondition(ps)
             THEN /\ gameRooms' = [gameRooms EXCEPT ![code].players = ps,
                                                    ![code].started = TRUE]
                  /\ emitted' = <<update,
                                  Broadcast("gameStart", Group(subs, code), code, ps, "", 0)>>
             ELSE /\ gameRooms' = [gameRooms EXCEPT ![code].players = ps]
                  /\ emitted' = <<update>>
     ELSE /\ emitted' = <<>>
          /\ UNCHANGED gameRooms
  /\ lastEvent' = Event("playerReady", c, code, "")
  /\ events' = events + 1
  /\ UNCHANGED <<roomKeys, subs, connected, nextId>>

\* a gameStateUpdate that keeps the first state a room was given
GameStateUpdate_FirstWins(c, code, gameState) ==
  /\ c \in connected
  /\ IF Live(code)
     THEN /\ gameRooms' = [gameRooms EXCEPT ![code].gameState =
                             IF @ = NoGameState THEN gameState ELSE @]
          /\ emitted' = <<Broadcast("gameStateChanged", GroupExcept(subs, code, c),
                                    code, <<>>, gameState, 0)>>
     ELSE /\ emitted' = <<>>
          /\ UNCHANGED gameRooms
  /\ lastEvent' = Event("gameStateUpdate", c, code, gameState)
  /\ events' = events + 1
  /\ UNCHANGED <<roomKeys, subs, connected, nextId>>

\* socket.on('gameStateUpdate')
GameStateUpdate(c, code, gameState) ==
  /\ c \in connected
  /\ IF Live(code)
     THEN /\ gameRooms' = [gameRooms EXCEPT ![code].gameState = gameState]
          /\ emitted' = <<Broadcast("gameStateChanged", GroupExcept(subs, code, c),
                                    code, <<>>, gameState, 0)>>
     ELSE /\ emitted' = <<>>
          /\ UNCHANGED gameRooms
  /\ lastEvent' = Event("gameStateUpdate", c, code, gameState)
  /\ events' = events + 1
  /\ UNCHANGED <<roomKeys, subs, connected, nextId>>

\* a playerAction that relays only for live rooms
PlayerAction_LiveOnly(c, code, action) ==
  /\ c \in connected
  /\ emitted' = IF Live(code)
                THEN <<Broadcast("playerAction", Group(subs, code), code, <<>>, action, c)>>
                ELSE <<>>
  /\ lastEvent' = Event("playerAction", c, code, action)
  /\ events' = events + 1
  /\ UNCHANGED <<gameRooms, roomKeys, subs, connected, nextId>>

\* socket.on('playerAction'); action stands for the opaque pair (action, data),
\* which is relayed as it came
PlayerAction(c, code, action) ==
  /\ c \in connected
  /\ emitted' = <<Broadcast("playerAction", Group(subs, code), code, <<>>, action, c)>>
  /\ lastEvent' = Event("playerAction", c, code, action)
  /\ events' = events + 1
  /\ UNCHANGED <<gameRooms, roomKeys, subs, connected, nextId>>

\* a callback that runs the start test again after the splice
RoomAfterLeave_Restart(room, c) ==
  IF FindIndex(room.players, c) # 0
  THEN [room EXCEPT !.players = Splice(@, FindIndex(room.players, c)),
                    !.started = @ \/ StartCondition(Splice(room.players,
                                                           FindIndex(room.players, c)))]
  ELSE room

\* one callback of gameRooms.forEach in the disconnect handler: the room after
\* the splice (unchanged when the socket is no player of it)
RoomAfterLeave(room, c) ==
  IF FindIndex(room.players, c) # 0
  THEN [room EXCEPT !.players = Splice(@, FindIndex(room.players, c))]
  ELSE room

\* a callback that never deletes the room
DeletedByLeave_Never(room, c) == FALSE

\* the callback deletes the room: the socket was found and the splice emptied it
DeletedByLeave(room, c) ==
  FindIndex(room.players, c) # 0 /\ Len(room.players) = 1

\* a forEach that notifies every room, the leaver's or not
RECURSIVE LeaveEmits_EveryRoom(_, _, _)
LeaveEmits_EveryRoom(keys, c, s) ==
  IF keys = <<>> THEN <<>>
  ELSE LET code == Head(keys)
           room == gameRooms[code]
           rest == LeaveEmits_EveryRoom(Tail(keys), c, s)
       IN IF ~DeletedByLeave(room, c)
          THEN <<Broadcast("playersUpdate", Group(s, code), code,
                           RoomAfterLeave(room, c).players, "", 0),
                 Broadcast("playerDisconnected", Group(s, code), code, <<>>, "", c)>>
               \o rest
          ELSE rest

\* the messages of the forEach over keys, in Map order; s is the broadcast
\* groups after the transport has removed the closing socket from them
RECURSIVE LeaveEmits(_, _, _)
LeaveEmits(keys, c, s) ==
  IF keys = <<>> THEN <<>>
  ELSE LET code == Head(keys)
           room == gameRooms[code]
           rest == LeaveEmits(Tail(keys), c, s)
       IN IF FindIndex(room.players, c) # 0 /\ ~DeletedByLeave(room, c)
          THEN <<Broadcast("playersUpdate", Group(s, code), code,
                           RoomAfterLeave(room, c).players, "", 0),
                 Broadcast("playerDisconnected", Group(s, code), code, <<>>, "", c)>>
               \o rest
          ELSE rest

\* keys.filter(keep), order kept
RECURSIVE FilterKeys(_, _)
FilterKeys(keys, keep) ==
  IF keys = <<>> THEN <<>>
  ELSE IF Head(keys) \in keep THEN <<Head(keys)>> \o FilterKeys(Tail(keys), keep)
       ELSE FilterKeys(Tail(keys), keep)

\* socket.on('disconnect'); socket.io has taken the socket out of every group
\* before the handler runs
Disconnect(c) ==
  /\ c \in connected
  /\ LET kept == {k \in DOMAIN gameRooms : ~DeletedByLeave(gameRooms[k], c)}
         left == [k \in Codes |-> subs[k] \ {c}]
     IN /\ gameRooms' = [k \in kept |-> RoomAfterLeave(gameRooms[k], c)]
        /\ roomKeys' = FilterKeys(roomKeys, kept)
        /\ subs' = left
        /\ emitted' = LeaveEmits(roomKeys, c, left)
  /\ connected' = connected \ {c}
  /\ lastEvent' = Event("disconnect", c, 0, "")
  /\ UNCHANGED <<nextId, events>>

\* the events the transport can deliver: at most maxConns connections are ever
\* opened, room codes are drawn from codes, and at most maxEvents client
\* messages are handled
Step(maxConns, codes, maxEvents) ==
  \/ Connect(maxConns)
  \/ /\ events < maxEvents
     /\ \E c \in connected, name \in PlayerNames, code \in codes : CreateRoom(c, name, code)
  \/ /\ events < maxEvents
     /\ \E c \in connected, name \in PlayerNames, code \in codes : JoinRoom(c, code, name)
  \/ /\ events < maxEvents
     /\ \E c \in connected, code \in codes : PlayerReady(c, code)
  \/ /\ events < maxEvents
     /\ \E c \in connected, code \in codes, gameState \in GameStates :
          GameStateUpdate(c, code, gameState)
  \/ /\ events < maxEvents
     /\ \E c \in connected, code \in codes, action \in ActionNames :
          PlayerAction(c, code, action)
  \/ \E c \in connected : Disconnect(c)

\* two connections, two room codes
Next == Step(MaxConns, Codes, MaxEvents)

Spec == Init /\ [][Next]_vars

\* three connections that all use one room code
NextParty == Step(PartyConns, PartyCodes, PartyEvents)

SpecParty == Init /\ [][NextParty]_vars

\* the socket has joined some broadcast group
InGroup(c) == \E code \in Codes : c \in subs[code]

\* well-behaved clients: they arrive one at a time, create or join one room
\* (all under one code) and then only send playerReady for it
NextLobby ==
  \/ /\ \A c \in connected : InGroup(c)
     /\ Connect(LobbyConns)
  \/ /\ events < LobbyEvents
     /\ gameRooms = <<>>
     /\ \E c \in connected, name \in PlayerNames :
          ~InGroup(c) /\ CreateRoom(c, name, LobbyCode)
  \/ /\ events < LobbyEvents
     /\ \E c \in connected, name \in PlayerNames :
          ~InGroup(c) /\ JoinRoom(c, LobbyCode, name)
  \/ /\ events < LobbyEvents
     /\ \E c \in connected : InGroup(c) /\ PlayerReady(c, LobbyCode)
  \/ \E c \in connected : Disconnect(c)

SpecLobby == Init /\ [][NextLobby]_vars

\* ------------------------------------------------------------------ claims
\* some message of msgs is an ev
HasEv(msgs, ev) == \E i \in 1..Len(msgs) : msgs[i].ev = ev

\* msgs is the single message: ev with text, to socket c alone
OnlyErrorTo(msgs, c, text) ==
  /\ Len(msgs) = 1
  /\ msgs[1].ev = "error"
  /\ msgs[1].to = {c}
  /\ msgs[1].text = text

\* the positions of players whose id is c
Entries(players, c) == {i \in 1..Len(players) : players[i].id = c}

\* C1: every connection id is a player of at most one live room, and at most
\* once in that room's player sequence.
C1_SingleMembership ==
  \A c \in 1..MaxConns :
    /\ Cardinality({k \in DOMAIN gameRooms : Entries(gameRooms[k].players, c) # {}}) <= 1
    /\ \A k \in DOMAIN gameRooms : Cardinality(Entries(gameRooms[k].players, c)) <= 1

\* C2: once a room has started, a playerReady for it emits no gameStart.
C2_GameStartAtMostOnce ==
  [][\A k \in DOMAIN gameRooms :
       (gameRooms[k].started /\ lastEvent'.type = "playerReady" /\ lastEvent'.code = k)
         => ~HasEv(emitted', "gameStart")]_vars

\* C3: a playerReady from a player of a live room sets that player's ready flag,
\* and emits gameStart and sets started exactly when the room then has at
\* least 2 players who are all ready; otherwise started keeps its value.
C3_StartIffAllReady ==
  [][\A k \in DOMAIN gameRooms :
       (/\ lastEvent'.type = "playerReady"
        /\ lastEvent'.code = k
        /\ Entries(gameRooms[k].players, lastEvent'.conn) # {})
         => LET old == gameRooms[k].players
                first == CHOOSE i \in Entries(old, lastEvent'.conn) :
                           \A j \in Entries(old, lastEvent'.conn) : i <= j
                after == [old EXCEPT ![first].ready = TRUE]
                allReady == /\ Len(after) >= 2
                            /\ \A i \in 1..Len(after) : after[i].ready
            IN /\ gameRooms'[k].players = after
               /\ allReady <=> HasEv(emitted', "gameStart")
               /\ allReady => gameRooms'[k].started
               /\ ~allReady => gameRooms'[k].started = gameRooms[k].started]_vars

\* C3 witness: a playerReady has just started a room of at least 2 players.
C3_Witness ==
  /\ lastEvent.type = "playerReady"
  /\ HasEv(emitted, "gameStart")
  /\ lastEvent.code \in DOMAIN gameRooms
  /\ gameRooms[lastEvent.code].started
  /\ Len(gameRooms[lastEvent.code].players) >= 2

\* C4: started of a room changes only in a playerReady for that room, only
\* from FALSE to TRUE and only when the room then has at least 2 players all
\* ready; joinRoom, disconnect, gameStateUpdate and playerAction never emit
\* gameStart.  (A createRoom that draws the code of a live room puts a new
\* room under the code; it is not the room that was there.)
C4_StartedOnlyByReady ==
  [][/\ \A k \in DOMAIN gameRooms \cap DOMAIN gameRooms' :
          ~(lastEvent'.type = "createRoom" /\ lastEvent'.code = k)
            => /\ gameRooms[k].started => gameRooms'[k].started
               /\ (~gameRooms[k].started /\ gameRooms'[k].started)
                    => /\ lastEvent'.type = "playerReady"
                       /\ lastEvent'.code = k
                       /\ Len(gameRooms'[k].players) >= 2
                       /\ \A i \in 1..Len(gameRooms'[k].players) :
                            gameRooms'[k].players[i].ready
     /\ lastEvent'.type \in {"joinRoom", "disconnect", "gameStateUpdate", "playerAction"}
          => ~HasEv(emitted', "gameStart")]_vars

\* C4 witness: a disconnect has left a room of at least 2 players, all ready,
\* that has not started.
C4_Witness ==
  /\ lastEvent.type = "disconnect"
  /\ \E k \in DOMAIN gameRooms :
       /\ Len(gameRooms[k].players) >= 2
       /\ \A i \in 1..Len(gameRooms[k].players) : gameRooms[k].players[i].ready
       /\ ~gameRooms[k].started

\* C5: every live room has at most 5 players.
C5_AtMostFivePlayers ==
  \A k \in DOMAIN gameRooms : Len(gameRooms[k].players) <= 5

\* C5 witness: a joinRoom was refused on a room of 5 players in which one
\* connection appears more than once.
C5_Witness ==
  /\ lastEvent.type = "joinRoom"
  /\ HasEv(emitted, "error")
  /\ lastEvent.code \in DOMAIN gameRooms
  /\ Len(gameRooms[lastEvent.code].players) = 5
  /\ Cardinality(Entries(gameRooms[lastEvent.code].players, lastEvent.conn)) > 1

\* C6: a joinRoom for a started room fails with 'Game already started', whatever
\* the number of players, and changes nothing.
C6_StartedRoomRefusesJoin ==
  [][\A k \in DOMAIN gameRooms :
       (gameRooms[k].started /\ lastEvent'.type = "joinRoom" /\ lastEvent'.code = k)
         => /\ OnlyErrorTo(emitted', lastEvent'.conn, "Game already started")
            /\ gameRooms' = gameRooms]_vars

\* C6 witness: a joinRoom was refused with 'Game already started' on a started
\* room of 5 players.
C6_Witness ==
  /\ lastEvent.type = "joinRoom"
  /\ OnlyErrorTo(emitted, lastEvent.conn, "Game already started")
  /\ lastEvent.code \in DOMAIN gameRooms
  /\ gameRooms[lastEvent.code].started
  /\ Len(gameRooms[lastEvent.code].players) = 5

\* C7 as stated: a joinRoom for a room of 5 players fails with 'Room is full',
\* whatever else is true of the room, and adds no player.
C7_FullRoomAlwaysRoomFull ==
  [][\A k \in DOMAIN gameRooms :
       (/\ Len(gameRooms[k].players) = 5
        /\ lastEvent'.type = "joinRoom"
        /\ lastEvent'.code = k)
         => /\ OnlyErrorTo(emitted', lastEvent'.conn, "Room is full")
            /\ gameRooms' = gameRooms]_vars

\* C7 amended: a joinRoom for a room of 5 players that has not started fails
\* with 'Room is full', whatever the ready flags, and adds no player.
C7_FullUnstartedRoomFull ==
  [][\A k \in DOMAIN gameRooms :
       (/\ Len(gameRooms[k].players) = 5
        /\ ~gameRooms[k].started
        /\ lastEvent'.type = "joinRoom"
        /\ lastEvent'.code = k)
         => /\ OnlyErrorTo(emitted', lastEvent'.conn, "Room is full")
            /\ gameRooms' = gameRooms]_vars

\* C7 witness: a joinRoom was refused with 'Room is full' on a room of 5
\* players, some ready and some not.
C7_Witness ==
  /\ lastEvent.type = "joinRoom"
  /\ OnlyErrorTo(emitted, lastEvent.conn, "Room is full")
  /\ lastEvent.code \in DOMAIN gameRooms
  /\ LET ps == gameRooms[lastEvent.code].players
     IN /\ Len(ps) = 5
        /\ \E i \in 1..5 : ps[i].ready
        /\ \E i \in 1..5 : ~ps[i].ready

\* C8: a joinRoom naming no live room, a started room or a room of 5 players
\* changes neither the registry nor the broadcast groups, and emits exactly
\* one message: an error to the requester alone.
C8_FailedJoinChangesNothing ==
  [][(/\ lastEvent'.type = "joinRoom"
      /\ \/ lastEvent'.code \notin DOMAIN gameRooms
         \/ gameRooms[lastEvent'.code].started
         \/ Len(gameRooms[lastEvent'.code].players) >= 5)
       => /\ gameRooms' = gameRooms
          /\ roomKeys' = roomKeys
          /\ subs' = subs
          /\ Len(emitted') = 1
          /\ emitted'[1].ev = "error"
          /\ emitted'[1].to = {lastEvent'.conn}
          /\ emitted'[1].text \in {"Room not found", "Game already started", "Room is full"}]_vars

\* C8 witness: a joinRoom by a socket outside the broadcast group of a live
\* room was refused.
C8_Witness ==
  /\ lastEvent.type = "joinRoom"
  /\ HasEv(emitted, "error")
  /\ lastEvent.code \in DOMAIN gameRooms
  /\ lastEvent.conn \notin subs[lastEvent.code]

\* C9: a createRoom whose generated code is the code of a live room fails with
\* an error and leaves that room unchanged.
C9_DuplicateCodeRejected ==
  [][(lastEvent'.type = "createRoom" /\ lastEvent'.code \in DOMAIN gameRooms)
       => /\ gameRooms'[lastEvent'.code] = gameRooms[lastEvent'.code]
          /\ HasEv(emitted', "error")]_vars

\* C10: every live room has a player; the disconnect of the only player of
\* a room removes the room in the same step; and a joinRoom, playerReady or
\* gameStateUpdate naming a code with no live room finds no room.
C10_LastLeaverDeletesRoom ==
  [][/\ \A k \in DOMAIN gameRooms' : Len(gameRooms'[k].players) >= 1
     /\ \A k \in DOMAIN gameRooms :
          (/\ lastEvent'.type = "disconnect"
           /\ Len(gameRooms[k].players) = 1
           /\ gameRooms[k].players[1].id = lastEvent'.conn)
            => k \notin DOMAIN gameRooms'
     /\ (/\ lastEvent'.type \in {"joinRoom", "playerReady", "gameStateUpdate"}
         /\ lastEvent'.code \notin DOMAIN gameRooms)
          => /\ gameRooms' = gameRooms
             /\ IF lastEvent'.type = "joinRoom"
                THEN OnlyErrorTo(emitted', lastEvent'.conn, "Room not found")
                ELSE emitted' = <<>>]_vars

\* C10 witness: a joinRoom found no room under a code whose broadcast group
\* still has a member, so the room that was there has been deleted.
C10_Witness ==
  /\ lastEvent.type = "joinRoom"
  /\ lastEvent.code \notin DOMAIN gameRooms
  /\ subs[lastEvent.code] # {}
  /\ OnlyErrorTo(emitted, lastEvent.conn, "Room not found")

\* C11: when a player leaves a room that has other players, the room stays
\* live, loses exactly that player's entry (the first one with the leaver's id)
\* with the order and the ready flags of the others kept, and playersUpdate
\* with the new sequence followed by playerDisconnected with the leaver's id go
\* to the sockets that remain in the room's broadcast group.
C11_LeaveKeepsOrder ==
  [][\A k \in DOMAIN gameRooms :
       (/\ lastEvent'.type = "disconnect"
        /\ Entries(gameRooms[k].players, lastEvent'.conn) # {}
        /\ Len(gameRooms[k].players) >= 2)
         => LET c == lastEvent'.conn
                old == gameRooms[k].players
                first == CHOOSE i \in Entries(old, c) : \A j \in Entries(old, c) : i <= j
            IN /\ k \in DOMAIN gameRooms'
               /\ Len(gameRooms'[k].players) = Len(old) - 1
               /\ \A j \in 1..(Len(old) - 1) :
                    gameRooms'[k].players[j] = IF j < first THEN old[j] ELSE old[j + 1]
               /\ gameRooms'[k].started = gameRooms[k].started
               /\ gameRooms'[k].gameState = gameRooms[k].gameState
               /\ \E i \in 1..(Len(emitted') - 1) :
                    /\ emitted'[i].ev = "playersUpdate"
                    /\ emitted'[i].code = k
                    /\ emitted'[i].players = gameRooms'[k].players
                    /\ emitted'[i].to = subs[k] \ {c}
                    /\ emitted'[i + 1].ev = "playerDisconnected"
                    /\ emitted'[i + 1].code = k
                    /\ emitted'[i + 1].pid = c
                    /\ emitted'[i + 1].to = subs[k] \ {c}]_vars

\* C11 witness: a disconnect has left a room of 2 players, one of them ready,
\* and the two messages went to the sockets that remain.
C11_Witness ==
  /\ lastEvent.type = "disconnect"
  /\ Len(emitted) = 2
  /\ emitted[1].ev = "playersUpdate"
  /\ Len(emitted[1].players) = 2
  /\ emitted[1].players[2].ready
  /\ Cardinality(emitted[1].to) = 2
  /\ emitted[2].ev = "playerDisconnected"

\* C12: gameStateChanged goes to every socket of the room's broadcast group
\* but the sender, and never to the sender; playersUpdate, gameStart and
\* playerAction go to every socket of the group, the one whose event caused
\* them included.
C12_BroadcastRecipients ==
  [][\A i \in 1..Len(emitted') :
       /\ emitted'[i].ev = "gameStateChanged"
            => /\ emitted'[i].to = subs[emitted'[i].code] \ {lastEvent'.conn}
               /\ lastEvent'.conn \notin emitted'[i].to
       /\ emitted'[i].ev \in {"playersUpdate", "gameStart", "playerAction"}
            => /\ emitted'[i].to = subs'[emitted'[i].code]
               /\ (lastEvent'.type # "disconnect" /\ lastEvent'.conn \in subs'[emitted'[i].code])
                    => lastEvent'.conn \in emitted'[i].to]_vars

\* C12 witness: a gameStateUpdate of a socket in a group of 3 was relayed to
\* the other two.
C12_Witness ==
  /\ lastEvent.type = "gameStateUpdate"
  /\ Len(emitted) = 1
  /\ emitted[1].ev = "gameStateChanged"
  /\ lastEvent.conn \in subs[lastEvent.code]
  /\ Cardinality(emitted[1].to) = 2

\* C13: a createRoom starts the player sequence with the creator; a successful
\* joinRoom appends the joiner, unready, and broadcasts one playersUpdate that
\* carries the room's players as they now are, to the joiner and to every
\* connected player of the room; and every playersUpdate of any step carries
\* the current players of its room.
C13_PlayersUpdateInJoinOrder ==
  [][/\ lastEvent'.type = "createRoom"
          => gameRooms'[lastEvent'.code].players =
               <<[id |-> lastEvent'.conn, name |-> lastEvent'.arg, ready |-> FALSE]>>
     /\ (/\ lastEvent'.type = "joinRoom"
         /\ lastEvent'.code \in DOMAIN gameRooms
         /\ ~gameRooms[lastEvent'.code].started
         /\ Len(gameRooms[lastEvent'.code].players) < 5)
          => LET k == lastEvent'.code
                 c == lastEvent'.conn
                 new == gameRooms'[k].players
             IN /\ new = Append(gameRooms[k].players,
                                [id |-> c, name |-> lastEvent'.arg, ready |-> FALSE])
                /\ Len(emitted') = 2
                /\ emitted'[1].ev = "roomJoined"
                /\ emitted'[1].to = {c}
                /\ emitted'[2].ev = "playersUpdate"
                /\ emitted'[2].code = k
                /\ emitted'[2].players = new
                /\ c \in emitted'[2].to
                /\ \A i \in 1..Len(new) :
                     new[i].id \in connected => new[i].id \in emitted'[2].to
     /\ \A i \in 1..Len(emitted') :
          emitted'[i].ev = "playersUpdate"
            => /\ emitted'[i].code \in DOMAIN gameRooms'
               /\ emitted'[i].players = gameRooms'[emitted'[i].code].players]_vars

\* C13 witness: the third connection has joined and the playersUpdate lists
\* the three players, the joiner last, and went to all three.
C13_Witness ==
  /\ lastEvent.type = "joinRoom"
  /\ Len(emitted) = 2
  /\ emitted[2].ev = "playersUpdate"
  /\ Len(emitted[2].players) = 3
  /\ emitted[2].players[3].id = lastEvent.conn
  /\ Cardinality({emitted[2].players[i].id : i \in 1..3}) = 3
  /\ Cardinality(emitted[2].to) = 3

\* C14: a playerReady naming no live room or sent by a socket that is no player
\* of the named room, a gameStateUpdate naming no live room, and the
\* disconnect of a socket that is a player of no room leave the registry as
\* it was and emit nothing.
C14_MissingStateIsSilent ==
  [][(\/ /\ lastEvent'.type = "playerReady"
         /\ \/ lastEvent'.code \notin DOMAIN gameRooms
            \/ Entries(gameRooms[lastEvent'.code].players, lastEvent'.conn) = {}
      \/ /\ lastEvent'.type = "gameStateUpdate"
         /\ lastEvent'.code \notin DOMAIN gameRooms
      \/ /\ lastEvent'.type = "disconnect"
         /\ \A k \in DOMAIN gameRooms :
              Entries(gameRooms[k].players, lastEvent'.conn) = {})
       => /\ gameRooms' = gameRooms
          /\ roomKeys' = roomKeys
          /\ emitted' = <<>>]_vars

\* C14 witness: a socket that is a player of no room has disconnected while a
\* room with a non-empty broadcast group is live, and nothing was emitted.
C14_Witness ==
  /\ lastEvent.type = "disconnect"
  /\ emitted = <<>>
  /\ \E k \in DOMAIN gameRooms : subs[k] # {}
  /\ \A k \in DOMAIN gameRooms : Len(gameRooms[k].players) = Cardinality(subs[k])

\* C15: a gameStateUpdate naming a live room sets that room's gameState to the
\* payload, whatever it was, and changes nothing else in the registry.
C15_LastWriteWins ==
  [][(lastEvent'.type = "gameStateUpdate" /\ lastEvent'.code \in DOMAIN gameRooms)
       => /\ gameRooms' = [gameRooms EXCEPT ![lastEvent'.code].gameState = lastEvent'.arg]
          /\ gameRooms'[lastEvent'.code].gameState = lastEvent'.arg
          /\ roomKeys' = roomKeys]_vars

\* C15 witness: of two live rooms one has just been given the state g2 while
\* the other still holds g1.
C15_Witness ==
  /\ lastEvent.type = "gameStateUpdate"
  /\ lastEvent.arg = "g2"
  /\ Len(roomKeys) = 2
  /\ gameRooms[lastEvent.code].gameState = "g2"
  /\ \E k \in DOMAIN gameRooms : k # lastEvent.code /\ gameRooms[k].gameState = "g1"

\* C16: a playerAction changes neither the registry nor the broadcast groups
\* and emits one playerAction carrying the sender's id to the whole group of
\* the named code, whether or not a room is live under the code and whether or
\* not the sender is a player of it.
C16_PlayerActionIsRelay ==
  [][lastEvent'.type = "playerAction"
       => /\ gameRooms' = gameRooms
          /\ roomKeys' = roomKeys
          /\ subs' = subs
          /\ Len(emitted') = 1
          /\ emitted'[1].ev = "playerAction"
          /\ emitted'[1].code = lastEvent'.code
          /\ emitted'[1].pid = lastEvent'.conn
          /\ emitted'[1].text = lastEvent'.arg
          /\ emitted'[1].to = subs[lastEvent'.code]]_vars

\* C16 witness: a playerAction naming a code with no live room was relayed to
\* the sockets still in that code's group, the sender not among them.
C16_Witness ==
  /\ lastEvent.type = "playerAction"
  /\ lastEvent.code \notin DOMAIN gameRooms
  /\ Len(emitted) = 1
  /\ emitted[1].to # {}
  /\ lastEvent.conn \notin emitted[1].to

\* the ids of the players of a room
PlayerIds(players) == {players[i].id : i \in 1..Len(players)}

\* at least 2 players, all ready
TwoOrMoreAllReady(players) ==
  Len(players) >= 2 /\ \A i \in 1..Len(players) : players[i].ready

\* C17: every player of every live room is a connected socket (so after a
\* disconnect no live room holds the leaver's id).
C17_PlayersAreConnected ==
  \A k \in DOMAIN gameRooms : PlayerIds(gameRooms[k].players) \subseteq connected

\* C18: the broadcast group of a live room's code is exactly the set of ids of
\* the room's players, and a code with no live room has an empty group.
C18_GroupIsPlayers ==
  /\ \A k \in DOMAIN gameRooms : subs[k] = PlayerIds(gameRooms[k].players)
  /\ \A k \in Codes \ DOMAIN gameRooms : subs[k] = {}

\* C19 as stated: every live room of at least 2 players who are all ready has
\* started.
C19_AllReadyImpliesStarted ==
  \A k \in DOMAIN gameRooms :
    TwoOrMoreAllReady(gameRooms[k].players) => gameRooms[k].started

\* C19 amended: a live room of at least 2 players, all ready, that has not
\* started arises only in a disconnect step; no other event produces one (it
\* can only find the room so already and leave its players alone), and a
\* playerReady of one of the room's players never leaves it so.
C19_UnstartedAllReadyOnlyByLeave ==
  [][\A k \in DOMAIN gameRooms' :
       (TwoOrMoreAllReady(gameRooms'[k].players) /\ ~gameRooms'[k].started)
         => \/ lastEvent'.type = "disconnect"
            \/ /\ k \in DOMAIN gameRooms
               /\ gameRooms[k].players = gameRooms'[k].players
               /\ ~gameRooms[k].started
               /\ ~(/\ lastEvent'.type = "playerReady"
                    /\ lastEvent'.code = k
                    /\ lastEvent'.conn \in PlayerIds(gameRooms[k].players))]_vars

\* C19 witness: a room of at least 2 players, all ready, is still not started
\* after a later gameStateUpdate for it.
C19_Witness ==
  /\ lastEvent.type = "gameStateUpdate"
  /\ lastEvent.code \in DOMAIN gameRooms
  /\ TwoOrMoreAllReady(gameRooms[lastEvent.code].players)
  /\ ~gameRooms[lastEvent.code].started

\* C20: an event changes a live room (or removes it) only if its sender is a
\* player of the room or the event is the sender's own successful joinRoom to
\* it; and a playerReady changes no ready flag but the sender's own.
C20_OnlyPlayersChangeRoom ==
  [][\A k \in DOMAIN gameRooms :
       /\ (k \notin DOMAIN gameRooms' \/ gameRooms'[k] # gameRooms[k])
            => \/ lastEvent'.conn \in PlayerIds(gameRooms[k].players)
               \/ /\ lastEvent'.type = "joinRoom"
                  /\ lastEvent'.code = k
                  /\ HasEv(emitted', "roomJoined")
       /\ lastEvent'.type = "playerReady"
            => \A i \in 1..Len(gameRooms[k].players) :
                 gameRooms'[k].players[i].ready # gameRooms[k].players[i].ready
                   => gameRooms[k].players[i].id = lastEvent'.conn]_vars

====
